---- MODULE Spec2Model ----
(***************************************************************************)
(* The downloads organizer of src/utils/manage_downloads.py as a state     *)
(* machine: the staging directory (~/Downloads), the project storage       *)
(* (downloads/<source>/), the upload manifest, the wall clock, and the      *)
(* position of a call of main() or of the DownloadsManager methods.        *)
(***************************************************************************)
EXTENDS Integers, Sequences, FiniteSets, TLC

\* ------------------------------------------------------------------ bounds

\* The wall clock, in minutes (the resolution of TIMESTAMP_FORMAT), runs 0..MaxTime.
MaxTime == 1
\* At most this many files are downloaded into the staging directory in all.
MaxDownloads == 2
\* At most this many filesystem failures or process crashes are injected.
MaxFaults == 1
\* A text given to the classifier on its own holds at most this many keywords
\* (besides those that are part of another of its keywords).
MaxKeywords == 2
\* get_current_nfl_week is called on the days from MaxDaysBefore days before
\* the season start to MaxDaysAfter days after it.
MaxDaysBefore == 9
MaxDaysAfter == 135
\* Failures injected into one call of clear_old_csvs.
MaxCleanupErrors == 1

\* ------------------------------------------------------- program constants

DEFAULT_MAX_AGE_MINUTES == 30
DEFAULT_SCAN_WINDOW_MINUTES == 60
NFL_WEEKS_IN_SEASON == 18

\* ------------------------------------------------------------- file values

Absent == "absent"
\* What a copy that failed part-way leaves at its destination: a strict prefix
\* of the source's bytes, equal to no staged file's content.
Truncated == "truncated"
NoValue == "none"

\* The CSV files a browser may drop directly into the staging directory, with
\* the bytes each holds (one download per name at a time).
BytesOf ==
    [n \in {"plays.csv", "plays (1).csv", "odds.csv", "notes.csv", "TFFB_SOS_QB_Week1_sos.csv",
            "TFFB_SOS_RB_Week1_sos.csv"} |->
        CASE n = "plays.csv" -> "ProjPts,ProjOwn,Player,A"
          [] n = "plays (1).csv" -> "ProjPts,ProjOwn,Player,B"
          [] n = "odds.csv" -> "Team,Spread,Moneyline"
          [] n = "notes.csv" -> "todo,done"
          [] n = "TFFB_SOS_RB_Week1_sos.csv" -> "Strength Of Schedule,Fantasy,Opp,RB"
          [] OTHER -> "Strength Of Schedule,Fantasy,Opp"]

StagedNames == DOMAIN BytesOf

\* Entries of the staging directory that "*.csv" must not match: a CSV inside
\* a subdirectory and a file with another extension.
DecoyNames == {"archive/plays.csv", "plays.xlsx"}

\* The marker substrings that the lowercased first CONTENT_SAMPLE_SIZE
\* characters of each content contain ('moneyline' contains 'line').
ContentMarkers(bytes) ==
    CASE bytes \in {"ProjPts,ProjOwn,Player,A", "ProjPts,ProjOwn,Player,B"} -> {"projpts", "projown"}
      [] bytes = "Team,Spread,Moneyline" -> {"spread", "moneyline", "line"}
      [] bytes \in {"Strength Of Schedule,Fantasy,Opp", "Strength Of Schedule,Fantasy,Opp,RB"}
            -> {"strength of schedule", "fantasy"}
      [] OTHER -> {}

\* The marker substrings that the lowercased (source markers) and uppercased
\* (position markers) filename contains.
FilenameMarkers(name) ==
    CASE name = "odds.csv" -> {"odds"}
      [] name = "DK_Salaries_export.csv" -> {"dk", "salaries"}
      [] name = "TFFB_SOS_QB_Week1_sos.csv" -> {"SOS_QB_", "_QB_"}
      [] name = "TFFB_SOS_RB_Week1_sos.csv" -> {"SOS_RB_", "_RB_"}
      [] OTHER -> {}

SizeOf(bytes) ==
    CASE bytes = "ProjPts,ProjOwn,Player,A" -> 24
      [] bytes = "ProjPts,ProjOwn,Player,B" -> 24
      [] bytes = "Team,Spread,Moneyline" -> 21
      [] bytes = "todo,done" -> 9
      [] bytes = "Strength Of Schedule,Fantasy,Opp" -> 32
      [] bytes = "Strength Of Schedule,Fantasy,Opp,RB" -> 35
      [] OTHER -> 0


\* ------------------------------------------------------------- classifier

AnyIn(patterns, markers) == patterns \cap markers # {}

\* What stands for the content of a file whose open() or read() raises
\* (PermissionError, UnicodeDecodeError, ...).
Unreadable == {"<raises>"}

\* _check_content_patterns with a plausible bug: the projections rule is tried
\* before the strength-of-schedule rule.
_check_content_patterns_ProjectionsFirst(content) ==
    IF content = Unreadable THEN NoValue
    ELSE IF AnyIn({"projpts", "projown", "fantasy", "footballers"}, content)
        THEN "projections"
    ELSE IF "strength of schedule" \in content \/ ("opp avg" \in content /\ "fpa" \in content)
        THEN "sos"
    ELSE IF AnyIn({"draftkings", "salary", "roster position"}, content)
        THEN "draftkings"
    ELSE IF AnyIn({"spread", "moneyline"}, content)
            \/ ("total" \in content /\ AnyIn({"odds", "line", "bet"}, content))
        THEN "nfl_odds"
    ELSE NoValue

\* The except branch (the read raised) returns None like a content that
\* matches no rule.
_check_content_patterns(content) ==
    IF content = Unreadable THEN NoValue
    ELSE IF "strength of schedule" \in content \/ ("opp avg" \in content /\ "fpa" \in content)
        THEN "sos"
    ELSE IF AnyIn({"projpts", "projown", "fantasy", "footballers"}, content)
        THEN "projections"
    ELSE IF AnyIn({"draftkings", "salary", "roster position"}, content)
        THEN "draftkings"
    ELSE IF AnyIn({"spread", "moneyline"}, content)
            \/ ("total" \in content /\ AnyIn({"odds", "line", "bet"}, content))
        THEN "nfl_odds"
    ELSE NoValue

\* The keywords the content rules and the filename rules look for.
ContentKeywords ==
    {"strength of schedule", "opp avg", "fpa",
     "projpts", "projown", "fantasy", "footballers",
     "draftkings", "salary", "roster position",
     "spread", "moneyline", "total", "odds", "line", "bet"}
FilenameKeywords ==
    {"strength of schedule", "fantasy", "projection", "footballers",
     "draftkings", "dk", "salaries", "odds", "lines", "betting"}

\* `pattern in text`: a text that contains a keyword contains every keyword
\* that is a part of it.
WithParts(keywords) ==
    keywords
      \cup (IF AnyIn({"moneyline", "lines"}, keywords) THEN {"line"} ELSE {})
      \cup (IF "betting" \in keywords THEN {"bet"} ELSE {})

\* The texts (as the keywords they contain) with at most MaxKeywords keywords
\* of the universe.
Texts(universe) ==
    {WithParts(S) : S \in {T \in SUBSET universe : Cardinality(T) <= MaxKeywords}}

\* _check_filename_patterns with a plausible bug: the draftkings patterns are
\* tried before the projections patterns.
_check_filename_patterns_DraftkingsFirst(filename_lower) ==
    IF "strength of schedule" \in filename_lower /\ "fantasy" \in filename_lower
        THEN "sos"
    ELSE IF AnyIn({"draftkings", "dk", "salaries"}, filename_lower)
        THEN "draftkings"
    ELSE IF AnyIn({"projection", "fantasy", "footballers"}, filename_lower)
        THEN "projections"
    ELSE IF AnyIn({"odds", "lines", "betting"}, filename_lower)
        THEN "nfl_odds"
    ELSE "unknown"

_check_filename_patterns(filename_lower) ==
    IF "strength of schedule" \in filename_lower /\ "fantasy" \in filename_lower
        THEN "sos"
    ELSE IF AnyIn({"projection", "fantasy", "footballers"}, filename_lower)
        THEN "projections"
    ELSE IF AnyIn({"draftkings", "dk", "salaries"}, filename_lower)
        THEN "draftkings"
    ELSE IF AnyIn({"odds", "lines", "betting"}, filename_lower)
        THEN "nfl_odds"
    ELSE "unknown"

\* _identify_source with a plausible bug: the failure to read the file is not
\* caught and leaves the classifier as an exception.
_identify_source_Raises(filename, content) ==
    IF content = Unreadable THEN "raised"
    ELSE LET content_source == _check_content_patterns(content) IN
         IF content_source # NoValue THEN content_source
         ELSE _check_filename_patterns(filename)

_identify_source(filename, content) ==
    LET content_source == _check_content_patterns(content) IN
    IF content_source # NoValue THEN content_source
    ELSE _check_filename_patterns(filename)

\* _extract_sos_position with a plausible bug: the RB markers are looked for
\* before the QB markers.
_extract_sos_position_RbFirst(filename_upper) ==
    IF AnyIn({"SOS_RB_", "_RB_"}, filename_upper) THEN "RB"
    ELSE IF AnyIn({"SOS_QB_", "_QB_"}, filename_upper) THEN "QB"
    ELSE IF AnyIn({"SOS_WR_", "_WR_"}, filename_upper) THEN "WR"
    ELSE IF AnyIn({"SOS_TE_", "_TE_"}, filename_upper) THEN "TE"
    ELSE IF AnyIn({"SOS_D/ST_", "_DST_", "D%2FST"}, filename_upper) THEN "DST"
    ELSE NoValue

_extract_sos_position(filename_upper) ==
    IF AnyIn({"SOS_QB_", "_QB_"}, filename_upper) THEN "QB"
    ELSE IF AnyIn({"SOS_RB_", "_RB_"}, filename_upper) THEN "RB"
    ELSE IF AnyIn({"SOS_WR_", "_WR_"}, filename_upper) THEN "WR"
    ELSE IF AnyIn({"SOS_TE_", "_TE_"}, filename_upper) THEN "TE"
    ELSE IF AnyIn({"SOS_D/ST_", "_DST_", "D%2FST"}, filename_upper) THEN "DST"
    ELSE NoValue

\* ------------------------------------------------------------ directories

\* self.sources: the keys are the sources, each with its own directory
\* downloads/<key>.
sources == {"projections", "draftkings", "nfl_odds", "sos"}

\* source.replace('_', '-')
Slug(source) ==
    CASE source = "nfl_odds" -> "nfl-odds"
      [] source = "fantasy_footballers" -> "fantasy-footballers"
      [] OTHER -> source

\* position.lower() in f"sos-{position.lower()}"
SosBase(position) ==
    CASE position = "QB" -> "sos-qb"
      [] position = "RB" -> "sos-rb"
      [] position = "WR" -> "sos-wr"
      [] position = "TE" -> "sos-te"
      [] OTHER -> "sos-dst"

\* BaseNameOf with a plausible bug: the position is left out of the name, as for
\* the other sources.
BaseNameOf_IgnoresPosition(source, filename_upper) == Slug(source)

\* base_name of a file of `source` whose uppercased name contains the markers
\* `filename_upper`.
BaseNameOf(source, filename_upper) ==
    IF source = "sos"
        THEN LET position == _extract_sos_position(filename_upper) IN
             IF position # NoValue THEN SosBase(position) ELSE "sos"
    ELSE Slug(source)

\* base_name of a file of `source` called `name`.
BaseName(source, name) == BaseNameOf(source, FilenameMarkers(name))

\* Every base name a file of the project storage can carry, and the source
\* directory its files live in.
Bases == {"projections", "draftkings", "nfl-odds", "sos", "sos-qb", "sos-rb", "sos-wr", "sos-te", "sos-dst"}

DirOf(base) ==
    CASE base = "projections" -> "projections"
      [] base = "draftkings" -> "draftkings"
      [] base = "nfl-odds" -> "nfl_odds"
      [] OTHER -> "sos"

\* A CSV file of the project: a latest file, a timestamped file, or one of the
\* two files below.
CsvFile(dir, base, kind, t) == [dir |-> dir, base |-> base, kind |-> kind, t |-> t]

\* The CSV files no step of the organizer writes: one directly in downloads/
\* and one in downloads/fantasy_footballers/.
LooseFiles ==
    {CsvFile("downloads", "export", "loose", 0),
     CsvFile("fantasy_footballers", "fantasy-footballers_latest", "loose", 0)}

\* ------------------------------------------------------------------ state

VARIABLES
    now,        \* time.time() / datetime.now(), in minutes
    staging,    \* ~/Downloads: name -> [bytes, mtime]
    stamped,    \* downloads/<dir>/<base>_<timestamp>.csv: base -> timestamp -> bytes
    latest,     \* downloads/<dir>/<base>_latest.csv: base -> bytes
    manifest,   \* downloads/upload_manifest.json
    pc,         \* where the running call stands
    caller,     \* "main" (main()), "api" (a method called directly) or "none"
    recent,     \* the list find_recent_csv_files returned
    files,      \* files_to_move
    idx,        \* the position of the for loop in files_to_move (1-based)
    moved,      \* moved_files
    ret,        \* what main() returned
    faults,     \* failures and crashes injected so far
    downloads,  \* files downloaded so far
    scanAge,    \* history: max_age_minutes of the last scan of this call (0: none)
    scanNow,    \* history: the time of that scan
    disk0,      \* history: the directories and the manifest when the call began
    everStaged, \* history: the names of known category staged so far
    copied,     \* history: base -> bytes of the file last copied in full to both destinations
    organized,  \* history: base -> bytes of the file last relocated
    rewrote,    \* history: this call wrote the manifest
    scenario,   \* history: this run of main() began in the end-to-end scenario's state
    faulted,    \* history: a failure was injected into this call
    clsFilename, \* _identify_source: the keywords the lowercased filename contains
    clsContent,  \* _identify_source: the keywords the content read contains, or Unreadable
    clsSource,   \* _identify_source: the value returned (NoValue: not called yet)
    posSource,   \* the source of the file whose base name is asked for
    posFilename, \* the position markers the uppercased filename contains
    posPc,       \* "idle", or "done" once the base name has been computed
    position,    \* what _extract_sos_position returned
    posBase,     \* base_name
    NFL_SEASON_START_DATE, \* the season start, a day number (day 0 is a Monday)
    today,       \* datetime.now(), a day number
    weeksReturned, \* the calls of get_current_nfl_week so far, oldest first: [date, week]
    config,      \* config.json: [file, sheet_id, tab_mappings]
    credentials, \* where the credentials file exists: [project, cwd]
    uploadPc,    \* where the call of upload_to_sheets stands
    uploader,    \* a SheetsUploader has been constructed (its __init__ entered)
    serviceCalls, \* the calls made to the spreadsheet service, in order
    available,   \* available_files of upload_all_dfs_data, in the order of the loop
    results,     \* results of upload_all_dfs_data: <<source, success>> in the order written
    uploadRet,   \* what upload_to_sheets returned (NoValue: nothing yet)
    wfPc,        \* where run_all.main() stands
    no_upload,   \* args.no_upload
    cleanup_success, \* what clear_old_csvs returned
    scraperResults, \* results of run_scrapers: <<description, success>> in order
    organize_success, \* what organize_files returned
    upload_success, \* upload_success of main()
    summary,     \* the arguments print_final_summary was called with
    attempts,    \* history: the steps main() has attempted, in order: <<step, outcome>>
    loose,       \* the CSV files of downloads/ and downloads/fantasy_footballers/
    clPc,        \* where the call of clear_old_csvs stands
    clDir,       \* the position of the loop over cleanup_dirs (1-based)
    csv_files,   \* the files of csv_files that _cleanup_directory has yet to visit
    errors,      \* errors of clear_old_csvs: the file or the directory of each
    total_deleted, \* total_deleted of clear_old_csvs
    clRet,       \* what clear_old_csvs returned (NoValue: nothing yet)
    found        \* history: the CSV files _cleanup_directory has listed in this call

disk == <<staging, stamped, latest, manifest>>
call == <<pc, caller, recent, files, idx, moved, ret>>
history == <<scanAge, scanNow, disk0, everStaged, copied, organized, rewrote, scenario, faulted>>
organizer == <<now, disk, call, faults, downloads, history>>
classifier == <<clsFilename, clsContent, clsSource, posSource, posFilename, posPc, position, posBase>>
\* What the organizer's steps leave alone.
calendar == <<NFL_SEASON_START_DATE, today, weeksReturned>>
sheets == <<config, credentials, uploadPc, uploader, serviceCalls, available, results, uploadRet>>
workflow == <<wfPc, no_upload, cleanup_success, scraperResults, organize_success,
              upload_success, summary, attempts>>
cleanup == <<loose, clPc, clDir, csv_files, errors, total_deleted, clRet, found>>
aside == <<classifier, calendar, sheets, workflow, cleanup>>
vars == <<organizer, aside>>

Snapshot == [staging |-> staging, stamped |-> stamped, latest |-> latest, manifest |-> manifest]

NoFile == [bytes |-> Absent, mtime |-> 0]
AllNames == StagedNames \cup DecoyNames

\* The manifest file: absent, the JSON document json.dump wrote, or what an
\* interrupted write left.
NoManifest == [state |-> "absent", timestamp |-> 0, files |-> <<>>]
CorruptManifest == [state |-> "corrupt", timestamp |-> 0, files |-> <<>>]

Staged(dir) == {n \in DOMAIN dir : dir[n].bytes # Absent}

\* ------------------------------------------------------------------- scan

\* self.system_downloads.glob("*.csv"): the entries directly in the directory
\* whose name ends in .csv.
InSubdirectory(name) == name = "archive/plays.csv"
HasCsvSuffix(name) == name # "plays.xlsx"
Glob(dir) == {n \in Staged(dir) : ~InSubdirectory(n) /\ HasCsvSuffix(n)}

\* The orders in which the directory may be listed.
GlobOrders(dir) ==
    LET S == Glob(dir)
        k == Cardinality(S)
    IN {s \in [1..k -> S] : \A i, j \in 1..k : i # j => s[i] # s[j]}

FileInfo(dir, name) ==
    [name |-> name,
     size |-> SizeOf(dir[name].bytes),
     modified |-> dir[name].mtime,
     source |-> _identify_source(FilenameMarkers(name), ContentMarkers(dir[name].bytes))]

\* sorted(recent_files, key=lambda x: x['modified'], reverse=True): stable,
\* entries of equal key keep their order.
RECURSIVE SortedNewestFirst(_)
SortedNewestFirst(s) ==
    IF s = <<>> THEN <<>>
    ELSE LET x == s[Len(s)]
             rest == SortedNewestFirst(SubSeq(s, 1, Len(s) - 1))
             keep == SelectSeq(rest, LAMBDA y : y.modified >= x.modified)
             after == SelectSeq(rest, LAMBDA y : y.modified < x.modified)
         IN keep \o <<x>> \o after

\* find_recent_csv_files with a plausible bug: reverse=True is missing, the
\* list is sorted oldest first.
find_recent_csv_files_OldestFirst(dir, order, max_age_minutes, time) ==
    LET cutoff_time == time - max_age_minutes
        infos == [i \in 1..Len(order) |-> FileInfo(dir, order[i])]
        recent_files == SelectSeq(infos, LAMBDA f : f.modified > cutoff_time)
        sorted == SortedNewestFirst(recent_files)
    IN [i \in 1..Len(sorted) |-> sorted[Len(sorted) + 1 - i]]

find_recent_csv_files(dir, order, max_age_minutes, time) ==
    LET cutoff_time == time - max_age_minutes
        infos == [i \in 1..Len(order) |-> FileInfo(dir, order[i])]
        recent_files == SelectSeq(infos, LAMBDA f : f.modified > cutoff_time)
    IN SortedNewestFirst(recent_files)

\* ---------------------------------------------------------------- manifest

ManifestEntry(source) ==
    [source |-> source,
     path |-> [dir |-> source, base |-> Slug(source)],
     size |-> SizeOf(latest[Slug(source)]),
     ready_for_upload |-> TRUE]

create_upload_manifest(moved_files) ==
    [state |-> "written",
     timestamp |-> now,
     files |-> LET order == <<"projections", "draftkings", "nfl_odds", "sos">>
                   present == SelectSeq(order, LAMBDA s : latest[Slug(s)] # Absent)
               IN [i \in 1..Len(present) |-> ManifestEntry(present[i])]]

\* ------------------------------------------------------------------- init

OrganizerInit ==
    /\ now = 0
    /\ staging = [n \in AllNames |-> NoFile]
    /\ stamped = [b \in Bases |-> [t \in 0..MaxTime |-> Absent]]
    /\ latest = [b \in Bases |-> Absent]
    /\ manifest = NoManifest
    /\ pc = "idle"
    /\ caller = "none"
    /\ recent = <<>>
    /\ files = <<>>
    /\ idx = 1
    /\ moved = <<>>
    /\ ret = NoValue
    /\ faults = 0
    /\ downloads = 0
    /\ scanAge = 0
    /\ scanNow = 0
    /\ disk0 = Snapshot
    /\ everStaged = {}
    /\ copied = [b \in Bases |-> NoValue]
    /\ organized = [b \in Bases |-> NoValue]
    /\ rewrote = FALSE
    /\ scenario = FALSE
    /\ faulted = FALSE

\* No classification asked for on its own.
PositionIdle ==
    /\ posPc = "idle"
    /\ position = NoValue
    /\ posBase = NoValue

ClassifierInit ==
    /\ clsFilename = {}
    /\ clsContent = {}
    /\ clsSource = NoValue
    /\ posSource = "sos"
    /\ posFilename = {}
    /\ PositionIdle

\* datetime(2025, 9, 5) is a Friday: day 11 when day 7 is a Monday.
WeekInit ==
    /\ NFL_SEASON_START_DATE = 11
    /\ today = 11
    /\ weeksReturned = <<>>

\* The call of upload_to_sheets, not begun.
UploadIdle ==
    /\ uploadPc = "idle"
    /\ uploader = FALSE
    /\ serviceCalls = <<>>
    /\ available = <<>>
    /\ results = <<>>
    /\ uploadRet = NoValue

\* No config.json and no credentials file yet.
UploadInit ==
    /\ config = [file |-> "missing", sheet_id |-> NoValue, tab_mappings |-> <<>>]
    /\ credentials = [project |-> FALSE, cwd |-> FALSE]
    /\ UploadIdle

NoSummary == [successful |-> 0, total |-> 0, organize_success |-> NoValue,
              upload_success |-> NoValue, upload_skipped |-> FALSE]

\* run_all.main(), not begun.
WorkflowIdle ==
    /\ wfPc = "start"
    /\ cleanup_success = NoValue
    /\ scraperResults = <<>>
    /\ organize_success = NoValue
    /\ upload_success = "False"
    /\ summary = NoSummary
    /\ attempts = <<>>

WorkflowInit ==
    /\ no_upload = FALSE
    /\ WorkflowIdle

\* clear_old_csvs, not begun.
CleanupIdle ==
    /\ clPc = "idle"
    /\ clDir = 1
    /\ csv_files = {}
    /\ errors = <<>>
    /\ total_deleted = 0
    /\ clRet = NoValue
    /\ found = {}

\* Nothing in downloads/ itself and in downloads/fantasy_footballers/.
CleanupInit ==
    /\ loose = {}
    /\ CleanupIdle

Init ==
    /\ OrganizerInit
    /\ ClassifierInit
    /\ WeekInit
    /\ UploadInit
    /\ WorkflowInit
    /\ CleanupInit

\* ------------------------------------------------------------ environment

\* A minute passes (a call is over within the minute it began in).
Tick ==
    /\ pc = "idle"
    /\ now < MaxTime
    /\ now' = now + 1
    /\ UNCHANGED <<aside, disk, call, faults, downloads, history>>

\* A browser (or the user) writes a CSV file into the staging directory.
Download(name) ==
    /\ pc = "idle"
    /\ staging[name].bytes = Absent
    /\ downloads < MaxDownloads
    /\ downloads' = downloads + 1
    /\ staging' = [staging EXCEPT ![name] = [bytes |-> BytesOf[name], mtime |-> now]]
    /\ disk0' = [staging |-> staging', stamped |-> stamped, latest |-> latest, manifest |-> manifest]
    /\ everStaged' = IF FileInfo(staging', name).source \in sources
                       THEN everStaged \cup {name} ELSE everStaged
    /\ UNCHANGED <<aside, now, stamped, latest, manifest, call, faults>>
    /\ UNCHANGED <<scanAge, scanNow, copied, organized, rewrote, scenario, faulted>>

\* ------------------------------------------------ move_and_organize_files

InOrganize == pc \in {"loop", "latest", "unlink"}

file_info == files[idx]
base_name == BaseName(file_info.source, file_info.name)
\* datetime.now().strftime(TIMESTAMP_FORMAT): the minute.
timestamp == now

MovedEntry(f) ==
    [source |-> f.source,
     original |-> f.name,
     destination |-> [dir |-> DirOf(BaseName(f.source, f.name)),
                      base |-> BaseName(f.source, f.name), timestamp |-> timestamp],
     latest |-> [dir |-> DirOf(BaseName(f.source, f.name)), base |-> BaseName(f.source, f.name)],
     size |-> f.size]

\* The except branch: the failure is printed and the loop goes on to the next file.
NextFile ==
    /\ idx' = idx + 1
    /\ pc' = "loop"

Fault ==
    /\ faults < MaxFaults
    /\ faults' = faults + 1
    /\ faulted' = TRUE
    /\ UNCHANGED downloads

\* moved_files = []; the for loop begins.
Begin(list, who) ==
    /\ files' = list
    /\ idx' = 1
    /\ moved' = <<>>
    /\ caller' = who
    /\ pc' = "loop"

\* OrgSkip with a plausible bug: the file that was not recognized is removed
\* from the staging directory.
OrgSkip_Unlinks ==
    /\ pc = "loop"
    /\ idx <= Len(files)
    /\ (file_info.source = "unknown" \/ file_info.source \notin sources)
    /\ staging' = [staging EXCEPT ![file_info.name] = NoFile]
    /\ NextFile
    /\ UNCHANGED <<aside, now, stamped, latest, manifest, caller, recent, files, moved, ret, faults, downloads, history>>

\* source == 'unknown' (or not a key of self.sources): continue.
OrgSkip ==
    /\ pc = "loop"
    /\ idx <= Len(files)
    /\ (file_info.source = "unknown" \/ file_info.source \notin sources)
    /\ NextFile
    /\ UNCHANGED <<aside, now, disk, caller, recent, files, moved, ret, faults, downloads, history>>

\* shutil.copy2(original_path, dest_path)
OrgCopyStamped ==
    /\ pc = "loop"
    /\ idx <= Len(files)
    /\ file_info.source \in sources
    /\ stamped' = [stamped EXCEPT ![base_name][timestamp] = staging[file_info.name].bytes]
    /\ pc' = "latest"
    /\ UNCHANGED <<aside, now, staging, latest, manifest, caller, recent, files, idx, moved, ret, faults, downloads, history>>

\* shutil.copy2(original_path, dest_path) raises: the destination is as it
\* was (the copy could not begin) or holds a part of the bytes.
OrgCopyStampedFail ==
    /\ pc = "loop"
    /\ idx <= Len(files)
    /\ file_info.source \in sources
    /\ Fault
    /\ \E left \in {stamped[base_name][timestamp], Truncated} :
          stamped' = [stamped EXCEPT ![base_name][timestamp] = left]
    /\ NextFile
    /\ UNCHANGED <<aside, now, staging, latest, manifest, caller, recent, files, moved, ret>>
    /\ UNCHANGED <<scanAge, scanNow, disk0, everStaged, copied, organized, rewrote, scenario>>

\* if latest_path.exists(): latest_path.unlink(); shutil.copy2(dest_path, latest_path)
OrgUpdateLatest ==
    /\ pc = "latest"
    /\ latest' = [latest EXCEPT ![base_name] = stamped[base_name][timestamp]]
    /\ copied' = [copied EXCEPT ![base_name] = stamped[base_name][timestamp]]
    /\ pc' = "unlink"
    /\ UNCHANGED <<aside, now, staging, stamped, manifest, caller, recent, files, idx, moved, ret, faults, downloads>>
    /\ UNCHANGED <<scanAge, scanNow, disk0, everStaged, organized, rewrote, scenario, faulted>>

\* latest_path.unlink() raises: the previous latest file stays.
OrgUnlinkLatestFail ==
    /\ pc = "latest"
    /\ latest[base_name] # Absent
    /\ Fault
    /\ NextFile
    /\ UNCHANGED <<aside, now, disk, caller, recent, files, moved, ret>>
    /\ UNCHANGED <<scanAge, scanNow, disk0, everStaged, copied, organized, rewrote, scenario>>

\* OrgCopyLatestFail with a plausible bug: the failure of the second copy is
\* swallowed where it happens and the loop body goes on to unlink the original.
OrgCopyLatestFail_GoesOn ==
    /\ pc = "latest"
    /\ Fault
    /\ \E left \in {Absent, Truncated} : latest' = [latest EXCEPT ![base_name] = left]
    /\ pc' = "unlink"
    /\ UNCHANGED <<aside, now, staging, stamped, manifest, caller, recent, files, idx, moved, ret>>
    /\ UNCHANGED <<scanAge, scanNow, disk0, everStaged, copied, organized, rewrote, scenario>>

\* The previous latest file is unlinked and shutil.copy2(dest_path, latest_path)
\* raises: no latest file (the copy could not begin) or a part of the bytes.
OrgCopyLatestFail ==
    /\ pc = "latest"
    /\ Fault
    /\ \E left \in {Absent, Truncated} : latest' = [latest EXCEPT ![base_name] = left]
    /\ NextFile
    /\ UNCHANGED <<aside, now, staging, stamped, manifest, caller, recent, files, moved, ret>>
    /\ UNCHANGED <<scanAge, scanNow, disk0, everStaged, copied, organized, rewrote, scenario>>

\* OrgUnlinkOriginal with a plausible bug: the file is reported as moved and
\* the original is not removed.
OrgUnlinkOriginal_KeepsOriginal ==
    /\ pc = "unlink"
    /\ moved' = Append(moved, MovedEntry(file_info))
    /\ organized' = [organized EXCEPT ![base_name] = staging[file_info.name].bytes]
    /\ NextFile
    /\ UNCHANGED <<aside, now, staging, stamped, latest, manifest, caller, recent, files, ret, faults, downloads>>
    /\ UNCHANGED <<scanAge, scanNow, disk0, everStaged, copied, rewrote, scenario, faulted>>

\* original_path.unlink(); moved_files.append({...})
OrgUnlinkOriginal ==
    /\ pc = "unlink"
    /\ staging' = [staging EXCEPT ![file_info.name] = NoFile]
    /\ moved' = Append(moved, MovedEntry(file_info))
    /\ organized' = [organized EXCEPT ![base_name] = staging[file_info.name].bytes]
    /\ NextFile
    /\ UNCHANGED <<aside, now, stamped, latest, manifest, caller, recent, files, ret, faults, downloads>>
    /\ UNCHANGED <<scanAge, scanNow, disk0, everStaged, copied, rewrote, scenario, faulted>>

\* original_path.unlink() raises: the file stays staged and is not reported.
OrgUnlinkOriginalFail ==
    /\ pc = "unlink"
    /\ Fault
    /\ NextFile
    /\ UNCHANGED <<aside, now, disk, caller, recent, files, moved, ret>>
    /\ UNCHANGED <<scanAge, scanNow, disk0, everStaged, copied, organized, rewrote, scenario>>

\* OrgReturn with a plausible bug: the manifest is written by every call.
OrgReturn_WritesManifest ==
    /\ pc = "loop"
    /\ idx > Len(files)
    /\ pc' = "returned"
    /\ manifest' = create_upload_manifest(moved)
    /\ UNCHANGED <<aside, now, staging, stamped, latest, caller, recent, files, idx, moved, ret, faults, downloads, history>>

\* return moved_files
OrgReturn ==
    /\ pc = "loop"
    /\ idx > Len(files)
    /\ pc' = "returned"
    /\ UNCHANGED <<aside, now, disk, caller, recent, files, idx, moved, ret, faults, downloads, history>>

\* The values of a call that is over.
Reset ==
    /\ pc' = "idle"
    /\ caller' = "none"
    /\ recent' = <<>>
    /\ files' = <<>>
    /\ idx' = 1
    /\ moved' = <<>>
    /\ ret' = NoValue
    /\ scanAge' = 0
    /\ scanNow' = 0
    /\ disk0' = Snapshot
    /\ rewrote' = FALSE
    /\ scenario' = FALSE
    /\ faulted' = FALSE

\* The process is killed between two filesystem operations of the loop.
Crash ==
    /\ InOrganize
    /\ faults < MaxFaults
    /\ faults' = faults + 1
    /\ Reset
    /\ UNCHANGED <<aside, now, disk, downloads, everStaged, copied, organized>>

\* ------------------------------------------------------------------ main()

\* The state the end-to-end scenario starts from: no latest file, and the
\* staging directory holds exactly plays.csv and odds.csv, just downloaded.
ScenarioStart ==
    /\ \A b \in Bases : latest[b] = Absent
    /\ Staged(staging) = {"plays.csv", "odds.csv"}
    /\ \A n \in Staged(staging) : staging[n].mtime > now - DEFAULT_SCAN_WINDOW_MINUTES

\* main() up to the call of move_and_organize_files: the scan of the last
\* hour; with nothing recent, show_status() (which only reads) and return.
MainStart(order) ==
    LET r == find_recent_csv_files(staging, order, DEFAULT_SCAN_WINDOW_MINUTES, now) IN
    /\ pc = "idle"
    /\ recent' = r
    /\ scanAge' = DEFAULT_SCAN_WINDOW_MINUTES
    /\ scanNow' = now
    /\ disk0' = Snapshot
    /\ scenario' = ScenarioStart
    /\ rewrote' = FALSE
    /\ faulted' = FALSE
    /\ IF r = <<>>
         THEN /\ pc' = "done"
              /\ caller' = "main"
              /\ ret' = "None"
              /\ UNCHANGED <<files, idx, moved>>
         ELSE /\ Begin(r, "main")
              /\ ret' = NoValue
    /\ UNCHANGED <<aside, now, disk, faults, downloads, everStaged, copied, organized>>

\* MainFinish with a plausible bug: the manifest is written whether or not a
\* file was moved.
MainFinish_AlwaysWrites ==
    /\ pc = "returned"
    /\ caller = "main"
    /\ manifest' = create_upload_manifest(moved)
    /\ rewrote' = (moved # <<>>)
    /\ ret' = IF Len(moved) > 0 THEN "True" ELSE "False"
    /\ pc' = "done"
    /\ UNCHANGED <<aside, now, staging, stamped, latest, caller, recent, files, idx, moved, faults, downloads>>
    /\ UNCHANGED <<scanAge, scanNow, disk0, everStaged, copied, organized, scenario, faulted>>

\* main() after move_and_organize_files: if moved_files, the manifest is
\* written (and show_status() reads the directories); return len(moved_files) > 0.
MainFinish ==
    /\ pc = "returned"
    /\ caller = "main"
    /\ IF moved # <<>>
         THEN /\ manifest' = create_upload_manifest(moved)
              /\ rewrote' = TRUE
         ELSE UNCHANGED <<manifest, rewrote>>
    /\ ret' = IF Len(moved) > 0 THEN "True" ELSE "False"
    /\ pc' = "done"
    /\ UNCHANGED <<aside, now, staging, stamped, latest, caller, recent, files, idx, moved, faults, downloads>>
    /\ UNCHANGED <<scanAge, scanNow, disk0, everStaged, copied, organized, scenario, faulted>>

\* open(manifest_path, 'w') or json.dump raises inside create_upload_manifest:
\* main() has no handler, the exception leaves it. The manifest file is as it
\* was (open failed) or holds a part of the document.
MainManifestFail ==
    /\ pc = "returned"
    /\ caller = "main"
    /\ moved # <<>>
    /\ Fault
    /\ \E left \in {manifest, CorruptManifest} : manifest' = left
    /\ ret' = "raised"
    /\ pc' = "done"
    /\ UNCHANGED <<aside, now, staging, stamped, latest, caller, recent, files, idx, moved>>
    /\ UNCHANGED <<scanAge, scanNow, disk0, everStaged, copied, organized, rewrote, scenario>>

\* result.returncode of the subprocess running manage_downloads.py: the
\* script ends with a bare `main()`, whose return value is discarded, so the
\* exit status is 0 unless an exception left main().
returncode == IF ret = "raised" THEN 1 ELSE 0

\* organize_downloads(): success = result.returncode == 0 (the subprocess
\* having ended within the timeout).
organize_downloads == returncode = 0

\* organize_files(): return organize_success
organize_files == organize_downloads

\* ------------------------------------------------- methods called directly

\* manager.find_recent_csv_files(max_age_minutes)
ApiScan(order, max_age_minutes) ==
    /\ pc = "idle"
    /\ recent' = find_recent_csv_files(staging, order, max_age_minutes, now)
    /\ scanAge' = max_age_minutes
    /\ scanNow' = now
    /\ disk0' = Snapshot
    /\ caller' = "api"
    /\ pc' = "scanned"
    /\ UNCHANGED <<aside, now, disk, files, idx, moved, ret, faults, downloads>>
    /\ UNCHANGED <<everStaged, copied, organized, rewrote, scenario, faulted>>

\* manager.move_and_organize_files([])
ApiOrganizeEmpty ==
    /\ pc = "idle"
    /\ Begin(<<>>, "api")
    /\ disk0' = Snapshot
    /\ UNCHANGED <<aside, now, disk, recent, ret, faults, downloads>>
    /\ UNCHANGED <<scanAge, scanNow, everStaged, copied, organized, rewrote, scenario, faulted>>

\* The moved_files arguments of a direct call of create_upload_manifest: none,
\* and an entry of a category that has no file on disk.
ManifestArgs ==
    {<<>>,
     <<[source |-> "draftkings", original |-> "DKSalaries.csv",
        destination |-> [dir |-> "draftkings", base |-> "draftkings", timestamp |-> 0],
        latest |-> [dir |-> "draftkings", base |-> "draftkings"], size |-> 1]>>}

\* manager.create_upload_manifest(moved_files)
ApiManifest(moved_files) ==
    /\ pc = "idle"
    /\ manifest' = create_upload_manifest(moved_files)
    /\ rewrote' = TRUE
    /\ moved' = moved_files
    /\ caller' = "api"
    /\ pc' = "done"
    /\ UNCHANGED <<aside, now, staging, stamped, latest, recent, files, idx, ret, faults, downloads>>
    /\ UNCHANGED <<scanAge, scanNow, disk0, everStaged, copied, organized, scenario, faulted>>

\* The call is over.
Exit ==
    /\ \/ pc = "done"
       \/ (pc \in {"returned", "scanned"} /\ caller = "api")
    /\ Reset
    /\ UNCHANGED <<aside, now, disk, faults, downloads, everStaged, copied, organized>>

\* ------------------------------------------------------------ specification

Next ==
    \/ Tick
    \/ \E name \in StagedNames : Download(name)
    \/ \E order \in GlobOrders(staging) : MainStart(order)
    \/ OrgSkip
    \/ OrgCopyStamped
    \/ OrgCopyStampedFail
    \/ OrgUpdateLatest
    \/ OrgUnlinkLatestFail
    \/ OrgCopyLatestFail
    \/ OrgUnlinkOriginal
    \/ OrgUnlinkOriginalFail
    \/ OrgReturn
    \/ Crash
    \/ MainFinish
    \/ MainManifestFail
    \/ \E order \in GlobOrders(staging), m \in {DEFAULT_MAX_AGE_MINUTES, DEFAULT_SCAN_WINDOW_MINUTES} :
          ApiScan(order, m)
    \/ ApiOrganizeEmpty
    \/ \E a \in ManifestArgs : ApiManifest(a)
    \/ Exit

Spec == Init /\ [][Next]_vars

\* ----------------------------------------------- the scan, on its own inputs

\* The staging directories and times find_recent_csv_files is applied to: each
\* of three CSV names absent or modified at one of ScanTimes, the two entries
\* "*.csv" must not match present or not.
ScanNames == {"plays.csv", "odds.csv", "notes.csv"}
ScanTimes == {0, 0 - DEFAULT_MAX_AGE_MINUTES, 0 - DEFAULT_SCAN_WINDOW_MINUTES}
ScanNows == {0, 1}

ScanDirs ==
    {[n \in AllNames |->
        IF n \in ScanNames /\ m[n] # 1 THEN [bytes |-> BytesOf[n], mtime |-> m[n]]
        ELSE IF n \in DecoyNames /\ d THEN [bytes |-> "ProjPts,ProjOwn,Player,A", mtime |-> 0]
        ELSE NoFile] : m \in [ScanNames -> ScanTimes \cup {1}], d \in BOOLEAN}

InitScan ==
    /\ now \in ScanNows
    /\ staging \in ScanDirs
    /\ stamped = [b \in Bases |-> [t \in 0..MaxTime |-> Absent]]
    /\ latest = [b \in Bases |-> Absent]
    /\ manifest = NoManifest
    /\ pc = "idle"
    /\ caller = "none"
    /\ recent = <<>>
    /\ files = <<>>
    /\ idx = 1
    /\ moved = <<>>
    /\ ret = NoValue
    /\ faults = 0
    /\ downloads = 0
    /\ scanAge = 0
    /\ scanNow = 0
    /\ disk0 = Snapshot
    /\ everStaged = {}
    /\ copied = [b \in Bases |-> NoValue]
    /\ organized = [b \in Bases |-> NoValue]
    /\ rewrote = FALSE
    /\ scenario = FALSE
    /\ faulted = FALSE
    /\ ClassifierInit
    /\ WeekInit
    /\ UploadInit
    /\ WorkflowInit
    /\ CleanupInit

NextScan ==
    \/ \E order \in GlobOrders(staging), m \in {DEFAULT_MAX_AGE_MINUTES, DEFAULT_SCAN_WINDOW_MINUTES} :
          ApiScan(order, m)
    \/ Exit

SpecScan == InitScan /\ [][NextScan]_vars

\* -------------------------------------------------- get_current_nfl_week

\* datetime.weekday(): Monday is 0, Sunday is 6.
weekday(date) == date % 7

\* get_current_nfl_week() at the date `current` (datetime.now()) with the
\* season starting at `season_start`. Dates are whole days: the season start
\* and week1_monday are midnights, so the time of day of `current` changes
\* neither the comparison nor timedelta.days.
\* get_current_nfl_week with a plausible bug: the cap at NFL_WEEKS_IN_SEASON
\* is missing.
get_current_nfl_week_NoCap(current, season_start) ==
    IF current < season_start THEN 1
    ELSE LET sunday == season_start + ((6 - weekday(season_start)) % 7)
             first_sunday == IF sunday = season_start THEN season_start + 7 ELSE sunday
             week1_monday == first_sunday - 6
             days_since_week1_monday == current - week1_monday
         IN (days_since_week1_monday \div 7) + 1

get_current_nfl_week(current, season_start) ==
    IF current < season_start THEN 1
    ELSE LET sunday == season_start + ((6 - weekday(season_start)) % 7)
             first_sunday == IF sunday = season_start THEN season_start + 7 ELSE sunday
             week1_monday == first_sunday - 6
             days_since_week1_monday == current - week1_monday
             current_week == (days_since_week1_monday \div 7) + 1
         IN IF current_week > NFL_WEEKS_IN_SEASON THEN NFL_WEEKS_IN_SEASON
            ELSE current_week

\* The season starts on any day of a week.
SeasonStarts == 7..13

InitWeek ==
    /\ OrganizerInit
    /\ ClassifierInit
    /\ UploadInit
    /\ WorkflowInit
    /\ CleanupInit
    /\ NFL_SEASON_START_DATE \in SeasonStarts
    /\ today = NFL_SEASON_START_DATE - MaxDaysBefore
    /\ weeksReturned = <<>>

\* A day passes (until two calls have been made).
DayPasses ==
    /\ Len(weeksReturned) < 2
    /\ today < NFL_SEASON_START_DATE + MaxDaysAfter
    /\ today' = today + 1
    /\ UNCHANGED <<organizer, cleanup, classifier, sheets, workflow, NFL_SEASON_START_DATE, weeksReturned>>

\* get_current_nfl_week() is called.
WeekCall ==
    /\ Len(weeksReturned) < 2
    /\ weeksReturned' = Append(weeksReturned,
          [date |-> today, week |-> get_current_nfl_week(today, NFL_SEASON_START_DATE)])
    /\ UNCHANGED <<organizer, cleanup, classifier, sheets, workflow, NFL_SEASON_START_DATE, today>>

NextWeek ==
    \/ DayPasses
    \/ WeekCall

SpecWeek == InitWeek /\ [][NextWeek]_vars

\* ------------------------------------------------------- upload_to_sheets

\* SheetsUploader.DEFAULT_TAB_MAPPINGS: its keys, in the order of the dict (the
\* tab names play no part in what is attempted).
DEFAULT_TAB_MAPPINGS == <<"fantasy_footballers", "draftkings", "nfl_odds">>

\* get_google_sheets_config() returning None.
NoConfig == [sheet_id |-> NoValue, credentials_file |-> NoValue, tab_mappings |-> <<>>]

\* load_config() returns None when config.json is missing, is no JSON, may not
\* be read or is an empty document; the defaults stand in for absent keys.
get_google_sheets_config ==
    IF config.file # "ok" THEN NoConfig
    ELSE [sheet_id |-> IF config.sheet_id = NoValue THEN "YOUR_SHEET_ID_HERE" ELSE config.sheet_id,
          credentials_file |-> "credentials.json",
          tab_mappings |-> config.tab_mappings]

\* creds_path = project_root / credentials_file must exist and be a file.
validate_google_sheets_config(sheets_config) ==
    /\ sheets_config # NoConfig
    /\ sheets_config.sheet_id # "YOUR_SHEET_ID_HERE"
    /\ credentials.project

\* Path(credentials_path).exists(), relative to the working directory.
validate_credentials(credentials_path) == credentials.cwd

\* latest_file.exists() for downloads/<source>/<source.replace('_', '-')>_latest.csv:
\* a latest file the organizer wrote, or the file of downloads/fantasy_footballers/.
LatestExists(source) ==
    IF source \in sources THEN latest[Slug(source)] # Absent
    ELSE /\ Slug(source) = "fantasy-footballers"
         /\ CsvFile(source, "fantasy-footballers_latest", "loose", 0) \in loose

get_available_csvs(tab_mappings) == SelectSeq(tab_mappings, LatestExists)

\* upload_to_sheets with a plausible bug: the configuration is not validated
\* before the uploader is constructed.
UploadStart_SkipsValidation ==
    /\ uploadPc = "idle"
    /\ uploadPc' = "construct"
    /\ UNCHANGED <<organizer, cleanup, classifier, calendar, workflow>>
    /\ UNCHANGED <<config, credentials, uploader, serviceCalls, available, results, uploadRet>>

\* upload_to_sheets up to the construction of the uploader: the configuration
\* is loaded and validated; a document that is JSON but no object makes
\* get_google_sheets_config raise, which the except branch turns into False.
UploadStart ==
    /\ uploadPc = "idle"
    /\ IF \/ config.file = "not_object"
          \/ ~validate_google_sheets_config(get_google_sheets_config)
          \/ ~validate_credentials(get_google_sheets_config.credentials_file)
         THEN /\ uploadRet' = "False"
              /\ uploadPc' = "done"
         ELSE /\ uploadPc' = "construct"
              /\ UNCHANGED uploadRet
    /\ UNCHANGED <<organizer, cleanup, classifier, calendar, workflow>>
    /\ UNCHANGED <<config, credentials, uploader, serviceCalls, available, results>>

\* SheetsUploader(...): __init__ calls _authenticate, which connects to the
\* service (service_account, open_by_key); a failure is raised and
\* upload_to_sheets returns False.
Construct(connected) ==
    /\ uploadPc = "construct"
    /\ uploader' = TRUE
    /\ serviceCalls' = Append(serviceCalls, <<"authenticate", NoValue>>)
    /\ IF connected
         THEN /\ uploadPc' = "connected"
              /\ UNCHANGED uploadRet
         ELSE /\ uploadPc' = "done"
              /\ uploadRet' = "False"
    /\ UNCHANGED <<organizer, cleanup, classifier, calendar, workflow>>
    /\ UNCHANGED <<config, credentials, available, results>>

\* upload_all_dfs_data up to its loop: with no file available it returns {}
\* and upload_to_sheets returns False.
UploadAll ==
    LET tab_mappings == IF get_google_sheets_config.tab_mappings # <<>>
                          THEN get_google_sheets_config.tab_mappings
                          ELSE DEFAULT_TAB_MAPPINGS
        available_files == get_available_csvs(tab_mappings)
    IN /\ uploadPc = "connected"
       /\ available' = available_files
       /\ results' = <<>>
       /\ IF available_files = <<>>
            THEN /\ uploadPc' = "done"
                 /\ uploadRet' = "False"
            ELSE /\ uploadPc' = "uploading"
                 /\ UNCHANGED uploadRet
       /\ UNCHANGED <<organizer, cleanup, classifier, calendar, workflow>>
       /\ UNCHANGED <<config, credentials, uploader, serviceCalls>>

UploadOutcomes == {"uploaded", "api_error", "csv_unusable"}

\* UploadCsv with a plausible bug: a failed upload is not caught and ends
\* upload_all_dfs_data, and upload_to_sheets returns False.
UploadCsv_StopsAtFailure(outcome) ==
    LET source == available[Len(results) + 1] IN
    /\ uploadPc = "uploading"
    /\ Len(results) < Len(available)
    /\ serviceCalls' = IF outcome = "csv_unusable" THEN serviceCalls
                        ELSE Append(serviceCalls, <<"update", source>>)
    /\ IF outcome = "uploaded"
         THEN /\ results' = Append(results, <<source, TRUE>>)
              /\ UNCHANGED <<uploadPc, uploadRet>>
         ELSE /\ uploadPc' = "done"
              /\ uploadRet' = "False"
              /\ UNCHANGED results
    /\ UNCHANGED <<organizer, cleanup, classifier, calendar, workflow>>
    /\ UNCHANGED <<config, credentials, uploader, available>>

\* One iteration of the loop: success = upload_csv_to_tab(csv_path, tab_name);
\* results[source] = success. The CSV is gone, empty or unparsable (no call
\* to the service), the service fails, or the tab is written; every
\* exception is caught inside upload_csv_to_tab.
UploadCsv(outcome) ==
    LET source == available[Len(results) + 1] IN
    /\ uploadPc = "uploading"
    /\ Len(results) < Len(available)
    /\ serviceCalls' = IF outcome = "csv_unusable" THEN serviceCalls
                        ELSE Append(serviceCalls, <<"update", source>>)
    /\ results' = Append(results, <<source, outcome = "uploaded">>)
    /\ UNCHANGED <<organizer, cleanup, classifier, calendar, workflow>>
    /\ UNCHANGED <<config, credentials, uploadPc, uploader, available, uploadRet>>

\* The loop is over: upload_all_dfs_data returns results and upload_to_sheets
\* returns any(results.values()).
UploadReturn ==
    /\ uploadPc = "uploading"
    /\ Len(results) = Len(available)
    /\ uploadRet' = IF \E i \in 1..Len(results) : results[i][2] THEN "True" ELSE "False"
    /\ uploadPc' = "done"
    /\ UNCHANGED <<organizer, cleanup, classifier, calendar, workflow>>
    /\ UNCHANGED <<config, credentials, uploader, serviceCalls, available, results>>

\* config.json as upload_to_sheets may find it.
Configs ==
    {[file |-> f, sheet_id |-> NoValue, tab_mappings |-> <<>>] :
        f \in {"missing", "malformed", "denied", "not_object"}}
    \cup
    {[file |-> "ok", sheet_id |-> i, tab_mappings |-> t] :
        i \in {NoValue, "sheet-1"},
        t \in {<<>>, <<"projections", "draftkings", "nfl_odds", "sos">>}}

\* The latest files the organizer may have left.
LatestStates ==
    {[b \in Bases |-> IF b \in S THEN "Name,Salary,Roster Position" ELSE Absent] :
        S \in SUBSET {"projections", "draftkings", "nfl-odds", "sos"}}

InitUpload ==
    /\ now = 0
    /\ staging = [n \in AllNames |-> NoFile]
    /\ stamped = [b \in Bases |-> [t \in 0..MaxTime |-> Absent]]
    /\ latest \in LatestStates
    /\ manifest = NoManifest
    /\ pc = "idle"
    /\ caller = "none"
    /\ recent = <<>>
    /\ files = <<>>
    /\ idx = 1
    /\ moved = <<>>
    /\ ret = NoValue
    /\ faults = 0
    /\ downloads = 0
    /\ scanAge = 0
    /\ scanNow = 0
    /\ disk0 = Snapshot
    /\ everStaged = {}
    /\ copied = [b \in Bases |-> NoValue]
    /\ organized = [b \in Bases |-> NoValue]
    /\ rewrote = FALSE
    /\ scenario = FALSE
    /\ faulted = FALSE
    /\ ClassifierInit
    /\ WeekInit
    /\ config \in Configs
    /\ credentials \in [project : BOOLEAN, cwd : BOOLEAN]
    /\ UploadIdle
    /\ WorkflowInit
    /\ loose \in SUBSET {f \in LooseFiles : f.dir = "fantasy_footballers"}
    /\ CleanupIdle

NextUpload ==
    \/ UploadStart
    \/ \E connected \in BOOLEAN : Construct(connected)
    \/ UploadAll
    \/ \E outcome \in UploadOutcomes : UploadCsv(outcome)
    \/ UploadReturn

SpecUpload == InitUpload /\ [][NextUpload]_vars

\* ---------------------------------------------------------- run_all.main

\* get_scraper_configs(): the descriptions, in the order of the list.
get_scraper_configs == <<"DraftKings Salaries", "NFL Odds Data", "Fantasy Footballers Projections">>

\* What becomes of one scraper: its script is not found; the subprocess exits
\* with 0, with another code, runs into the timeout, or cannot be run.
ScraperOutcomes == {"missing", "ok", "failed", "timeout", "error"}
\* What becomes of organize_downloads' subprocess, likewise.
OrganizeOutcomes == {"ok", "issues", "timeout", "error"}

Bool(b) == IF b THEN "True" ELSE "False"

\* cleanup_success = clear_old_csvs(): every error is collected, none raised;
\* main() goes on either way.
WfCleanup(ok) ==
    /\ wfPc = "start"
    /\ cleanup_success' = Bool(ok)
    /\ attempts' = Append(attempts, <<"cleanup", Bool(ok)>>)
    /\ wfPc' = "scrapers"
    /\ UNCHANGED <<organizer, cleanup, classifier, calendar, sheets>>
    /\ UNCHANGED <<no_upload, scraperResults, organize_success, upload_success, summary>>

\* WfScraper with a plausible bug: a timeout or an error of the subprocess is
\* not caught in run_scraper and ends main().
WfScraper_Propagates(outcome) ==
    LET description == get_scraper_configs[Len(scraperResults) + 1] IN
    /\ wfPc = "scrapers"
    /\ Len(scraperResults) < Len(get_scraper_configs)
    /\ attempts' = Append(attempts, <<description, outcome>>)
    /\ IF outcome \in {"timeout", "error"}
         THEN /\ wfPc' = "raised"
              /\ UNCHANGED scraperResults
         ELSE /\ scraperResults' = Append(scraperResults, <<description, outcome = "ok">>)
              /\ UNCHANGED wfPc
    /\ UNCHANGED <<organizer, cleanup, classifier, calendar, sheets>>
    /\ UNCHANGED <<no_upload, cleanup_success, organize_success, upload_success, summary>>

\* One iteration of run_scrapers: results.append((description, success)),
\* success being False for a missing script and for every failure of
\* run_scraper, which catches TimeoutExpired and Exception.
WfScraper(outcome) ==
    LET description == get_scraper_configs[Len(scraperResults) + 1] IN
    /\ wfPc = "scrapers"
    /\ Len(scraperResults) < Len(get_scraper_configs)
    /\ attempts' = Append(attempts, <<description, outcome>>)
    /\ scraperResults' = Append(scraperResults, <<description, outcome = "ok">>)
    /\ UNCHANGED <<organizer, cleanup, classifier, calendar, sheets>>
    /\ UNCHANGED <<wfPc, no_upload, cleanup_success, organize_success, upload_success, summary>>

\* run_scrapers has returned; organize_success = organize_files(), which is
\* True when manage_downloads.py exits with 0 and False otherwise (every
\* exception is caught in organize_downloads and in organize_files).
WfOrganize(outcome) ==
    /\ wfPc = "scrapers"
    /\ Len(scraperResults) = Len(get_scraper_configs)
    /\ organize_success' = Bool(outcome = "ok")
    /\ attempts' = Append(attempts, <<"organize", outcome>>)
    /\ wfPc' = "upload"
    /\ UNCHANGED <<organizer, cleanup, classifier, calendar, sheets>>
    /\ UNCHANGED <<no_upload, cleanup_success, scraperResults, upload_success, summary>>

\* if not args.no_upload: upload_success = upload_to_sheets(), which returns
\* True or False and raises nothing.
WfUpload(ok) ==
    /\ wfPc = "upload"
    /\ ~no_upload
    /\ upload_success' = Bool(ok)
    /\ attempts' = Append(attempts, <<"upload", Bool(ok)>>)
    /\ wfPc' = "summary"
    /\ UNCHANGED <<organizer, cleanup, classifier, calendar, sheets>>
    /\ UNCHANGED <<no_upload, cleanup_success, scraperResults, organize_success, summary>>

\* else: the upload is skipped.
WfSkipUpload ==
    /\ wfPc = "upload"
    /\ no_upload
    /\ wfPc' = "summary"
    /\ UNCHANGED <<organizer, cleanup, classifier, calendar, sheets>>
    /\ UNCHANGED <<no_upload, cleanup_success, scraperResults, organize_success,
                    upload_success, summary, attempts>>

\* print_final_summary(successful, total, organize_success, upload_success,
\* args.no_upload), successful and total as print_results_summary counted them.
WfSummary ==
    /\ wfPc = "summary"
    /\ summary' = [successful |-> Cardinality({i \in 1..Len(scraperResults) : scraperResults[i][2]}),
                   total |-> Len(scraperResults),
                   organize_success |-> organize_success,
                   upload_success |-> upload_success,
                   upload_skipped |-> no_upload]
    /\ wfPc' = "done"
    /\ UNCHANGED <<organizer, cleanup, classifier, calendar, sheets>>
    /\ UNCHANGED <<no_upload, cleanup_success, scraperResults, organize_success,
                    upload_success, attempts>>

InitWorkflow ==
    /\ OrganizerInit
    /\ ClassifierInit
    /\ WeekInit
    /\ UploadInit
    /\ no_upload \in BOOLEAN
    /\ WorkflowIdle
    /\ CleanupInit

NextWorkflow ==
    \/ \E ok \in BOOLEAN : WfCleanup(ok)
    \/ \E outcome \in ScraperOutcomes : WfScraper(outcome)
    \/ \E outcome \in OrganizeOutcomes : WfOrganize(outcome)
    \/ \E ok \in BOOLEAN : WfUpload(ok)
    \/ WfSkipUpload
    \/ WfSummary

\* main() is a sequential program whose every step ends (the subprocesses run
\* under a timeout): a step that can be taken is taken.
SpecWorkflow == InitWorkflow /\ [][NextWorkflow]_vars /\ WF_vars(NextWorkflow)

\* ---------------------------------------------------------- clear_old_csvs

\* cleanup_dirs, in the order of the list: downloads/ itself and three of its
\* subdirectories.
cleanup_dirs == <<"downloads", "draftkings", "fantasy_footballers", "nfl_odds">>

\* directory.glob("*.csv"): the CSV files directly in a directory of the
\* project (upload_manifest.json is no CSV; a directory that does not exist
\* holds none and is passed over).
ProjectCsvs(dir) ==
    {f \in loose : f.dir = dir}
    \cup {CsvFile(dir, b, "latest", 0) : b \in {x \in Bases : DirOf(x) = dir /\ latest[x] # Absent}}
    \cup {CsvFile(dir, bt[1], "stamped", bt[2]) :
             bt \in {x \in Bases \X (0..MaxTime) : DirOf(x[1]) = dir /\ stamped[x[1]][x[2]] # Absent}}

\* The entry of the error list for a directory that could not be listed.
ScanError(dir) == CsvFile(dir, "*", "directory", 0)

\* csv_file.unlink()
Unlink(f) ==
    /\ loose' = loose \ {f}
    /\ latest' = IF f.kind = "latest" THEN [latest EXCEPT ![f.base] = Absent] ELSE latest
    /\ stamped' = IF f.kind = "stamped" THEN [stamped EXCEPT ![f.base][f.t] = Absent] ELSE stamped

\* clear_old_csvs(): errors = [], total_deleted = 0; the organizer is not
\* running.
ClStart ==
    /\ clPc \in {"idle", "done"}
    /\ pc = "idle"
    /\ clPc' = "dirs"
    /\ clDir' = 1
    /\ csv_files' = {}
    /\ errors' = <<>>
    /\ total_deleted' = 0
    /\ clRet' = NoValue
    /\ found' = {}
    /\ UNCHANGED <<organizer, classifier, calendar, sheets, workflow, loose>>

\* _cleanup_directory(directory): csv_files = list(directory.glob("*.csv"))
ClList ==
    /\ clPc = "dirs"
    /\ clDir <= Len(cleanup_dirs)
    /\ csv_files' = ProjectCsvs(cleanup_dirs[clDir])
    /\ found' = found \cup ProjectCsvs(cleanup_dirs[clDir])
    /\ clPc' = "files"
    /\ UNCHANGED <<organizer, classifier, calendar, sheets, workflow>>
    /\ UNCHANGED <<loose, clDir, errors, total_deleted, clRet>>

\* The listing raises: the outer except of _cleanup_directory records the
\* error and the directory is left as it is.
ClListFail ==
    /\ clPc = "dirs"
    /\ clDir <= Len(cleanup_dirs)
    /\ Len(errors) < MaxCleanupErrors
    /\ errors' = Append(errors, ScanError(cleanup_dirs[clDir]))
    /\ clDir' = clDir + 1
    /\ UNCHANGED <<organizer, classifier, calendar, sheets, workflow>>
    /\ UNCHANGED <<loose, clPc, csv_files, total_deleted, clRet, found>>

\* csv_file.unlink(); deleted_count += 1
ClUnlink(f) ==
    /\ clPc = "files"
    /\ f \in csv_files
    /\ Unlink(f)
    /\ total_deleted' = total_deleted + 1
    /\ csv_files' = csv_files \ {f}
    /\ UNCHANGED <<classifier, calendar, sheets, workflow>>
    /\ UNCHANGED <<now, staging, manifest, call, faults, downloads, history>>
    /\ UNCHANGED <<clPc, clDir, errors, clRet, found>>

\* ClUnlinkFail with a plausible bug: the error is not caught per file; it
\* reaches the outer except and ends the loop over the directory's files.
ClUnlinkFail_LeavesDirectory(f) ==
    /\ clPc = "files"
    /\ f \in csv_files
    /\ Len(errors) < MaxCleanupErrors
    /\ errors' = Append(errors, f)
    /\ csv_files' = {}
    /\ UNCHANGED <<organizer, classifier, calendar, sheets, workflow>>
    /\ UNCHANGED <<loose, clPc, clDir, total_deleted, clRet, found>>

\* csv_file.unlink() raises: the error is appended and the loop goes on.
ClUnlinkFail(f) ==
    /\ clPc = "files"
    /\ f \in csv_files
    /\ Len(errors) < MaxCleanupErrors
    /\ errors' = Append(errors, f)
    /\ csv_files' = csv_files \ {f}
    /\ UNCHANGED <<organizer, classifier, calendar, sheets, workflow>>
    /\ UNCHANGED <<loose, clPc, clDir, total_deleted, clRet, found>>

\* The loop over csv_files is over: return deleted_count, errors; the next
\* directory.
ClNextDir ==
    /\ clPc = "files"
    /\ csv_files = {}
    /\ clDir' = clDir + 1
    /\ clPc' = "dirs"
    /\ UNCHANGED <<organizer, classifier, calendar, sheets, workflow>>
    /\ UNCHANGED <<loose, csv_files, errors, total_deleted, clRet, found>>

\* return len(errors) == 0
ClReturn ==
    /\ clPc = "dirs"
    /\ clDir > Len(cleanup_dirs)
    /\ clRet' = Bool(Len(errors) = 0)
    /\ clPc' = "done"
    /\ UNCHANGED <<organizer, classifier, calendar, sheets, workflow>>
    /\ UNCHANGED <<loose, clDir, csv_files, errors, total_deleted, found>>

\* The weekly run on the project's storage: clear_old_csvs, downloads into the
\* staging directory, main() of manage_downloads, one after the other as
\* run_all calls them.
InitRun ==
    /\ OrganizerInit
    /\ ClassifierInit
    /\ WeekInit
    /\ UploadInit
    /\ WorkflowInit
    /\ loose \in SUBSET LooseFiles
    /\ CleanupIdle

NextRun ==
    \/ ClStart
    \/ ClList
    \/ ClListFail
    \/ \E f \in csv_files : ClUnlink(f)
    \/ \E f \in csv_files : ClUnlinkFail(f)
    \/ ClNextDir
    \/ ClReturn
    \/ Tick
    \/ \E name \in StagedNames : Download(name)
    \/ \E order \in GlobOrders(staging) : clPc \in {"idle", "done"} /\ MainStart(order)
    \/ OrgSkip
    \/ OrgCopyStamped
    \/ OrgCopyStampedFail
    \/ OrgUpdateLatest
    \/ OrgUnlinkLatestFail
    \/ OrgCopyLatestFail
    \/ OrgUnlinkOriginal
    \/ OrgUnlinkOriginalFail
    \/ OrgReturn
    \/ MainFinish
    \/ MainManifestFail
    \/ Exit

SpecRun == InitRun /\ [][NextRun]_vars

\* ------------------------------------------ the classifier, on its own inputs

\* _identify_source(filename, filepath) is applied to a file of any name
\* whose content is readable (any text, the empty one included) or not.
InitClassify ==
    /\ OrganizerInit
    /\ WeekInit
    /\ UploadInit
    /\ WorkflowInit
    /\ CleanupInit
    /\ clsFilename \in Texts(ContentKeywords \cup FilenameKeywords)
    /\ clsContent \in Texts(ContentKeywords) \cup {Unreadable}
    /\ clsSource = NoValue
    /\ posSource = "sos"
    /\ posFilename = {}
    /\ PositionIdle

Classify ==
    /\ clsSource = NoValue
    /\ clsSource' = _identify_source(clsFilename, clsContent)
    /\ UNCHANGED <<organizer, cleanup, calendar, sheets, workflow, clsFilename, clsContent>>
    /\ UNCHANGED <<posSource, posFilename, posPc, position, posBase>>

NextClassify == Classify

SpecClassify == InitClassify /\ [][NextClassify]_vars

\* ------------------------------- the position of a file, on its own inputs

\* The tokens _extract_sos_position looks for in the uppercased filename.
PositionMarkers ==
    {"SOS_QB_", "_QB_", "SOS_RB_", "_RB_", "SOS_WR_", "_WR_", "SOS_TE_", "_TE_",
     "SOS_D/ST_", "_DST_", "D%2FST"}

\* `token in filename_upper`: a name that contains SOS_QB_ contains _QB_, and
\* so on ('SOS_D/ST_' contains neither of the other two DST tokens).
WithTokenParts(markers) ==
    markers
      \cup (IF "SOS_QB_" \in markers THEN {"_QB_"} ELSE {})
      \cup (IF "SOS_RB_" \in markers THEN {"_RB_"} ELSE {})
      \cup (IF "SOS_WR_" \in markers THEN {"_WR_"} ELSE {})
      \cup (IF "SOS_TE_" \in markers THEN {"_TE_"} ELSE {})

\* The filenames (as the tokens they contain) with at most MaxKeywords tokens.
PositionTexts ==
    {WithTokenParts(S) : S \in {T \in SUBSET PositionMarkers : Cardinality(T) <= MaxKeywords}}

InitPosition ==
    /\ OrganizerInit
    /\ WeekInit
    /\ UploadInit
    /\ WorkflowInit
    /\ CleanupInit
    /\ clsFilename = {}
    /\ clsContent = {}
    /\ clsSource = NoValue
    /\ posSource \in sources
    /\ posFilename \in PositionTexts
    /\ PositionIdle

\* The base name move_and_organize_files gives the file: the position is asked
\* for only when the source is 'sos'.
ExtractPosition ==
    /\ posPc = "idle"
    /\ position' = IF posSource = "sos" THEN _extract_sos_position(posFilename) ELSE NoValue
    /\ posBase' = BaseNameOf(posSource, posFilename)
    /\ posPc' = "done"
    /\ UNCHANGED <<organizer, cleanup, calendar, sheets, workflow>>
    /\ UNCHANGED <<clsFilename, clsContent, clsSource, posSource, posFilename>>

NextPosition == ExtractPosition

SpecPosition == InitPosition /\ [][NextPosition]_vars

\* ------------------------------------------------------------------ claims

SourceOfName(n) == _identify_source(FilenameMarkers(n), ContentMarkers(BytesOf[n]))

\* The bytes are in some file (timestamped or latest) of the folder downloads/<dir>.
InFolder(dir, bytes) ==
    \E b \in Bases :
        /\ DirOf(b) = dir
        /\ (latest[b] = bytes \/ \E t \in 0..MaxTime : stamped[b][t] = bytes)

LatestFilesOf(dir) == {b \in Bases : DirOf(b) = dir /\ latest[b] # Absent}

\* C1: in every state, the bytes of every file of a known category that was
\* ever staged are in the staging directory or in a file of the category's
\* project folder.
C1_NoStagedContentLost ==
    \A n \in everStaged :
        \/ staging[n].bytes = BytesOf[n]
        \/ InFolder(SourceOfName(n), BytesOf[n])

\* C2: in every state, each category has at most one latest file, and a latest
\* file that exists holds the bytes of the file of that category whose two
\* copies were last completed.
C2_LatestMirrorsLastOrganized ==
    \A dir \in sources :
        /\ Cardinality(LatestFilesOf(dir)) <= 1
        /\ \A b \in LatestFilesOf(dir) : latest[b] = copied[b]

\* C3: the step that completes the relocation of a second file of a category
\* leaves exactly one latest file for the category, holding the second file's
\* bytes, and a timestamped file holding the bytes of the file relocated before.
C3_FirstFileKeepsTimestampedCopy ==
    [][(pc = "unlink" /\ Len(moved') = Len(moved) + 1 /\ organized[base_name] # NoValue)
        => /\ Cardinality({b \in Bases : DirOf(b) = DirOf(base_name) /\ latest'[b] # Absent}) = 1
           /\ latest'[base_name] = staging[file_info.name].bytes
           /\ \E t \in 0..MaxTime : stamped'[base_name][t] = organized[base_name]]_vars

\* C4: a file classified unknown stays in the staging directory as it was and
\* is not reported as moved, during the call and after it; and the step of
\* the loop that handles it changes no file at all.
C4_UnknownLeftUntouched ==
    /\ [](\A i \in 1..Len(files) :
            files[i].source = "unknown" =>
                /\ staging[files[i].name].bytes # Absent
                /\ staging[files[i].name] = disk0.staging[files[i].name]
                /\ \A j \in 1..Len(moved) : moved[j].original # files[i].name)
    /\ [][(pc = "loop" /\ idx <= Len(files) /\ file_info.source = "unknown")
            => UNCHANGED <<staging, stamped, latest, manifest>>]_vars

\* A call that relocated one file and skipped an unknown one has returned.
C4_Witness ==
    /\ pc = "returned"
    /\ Len(moved) = 1
    /\ \E i \in 1..Len(files) : files[i].source = "unknown"

\* C5: a staged file leaves the staging directory only in a state where its
\* timestamped copy and the latest file both hold its bytes; and a file of a
\* known category that the loop has passed without reporting it (a copy or
\* the unlink failed) is still staged, as it was.
C5_DeleteOnlyAfterBothCopies ==
    /\ [](\A i \in 1..Len(files) :
            (i < idx /\ files[i].source \in sources
                /\ \A j \in 1..Len(moved) : moved[j].original # files[i].name)
            => staging[files[i].name] = disk0.staging[files[i].name])
    /\ [][\A n \in StagedNames :
            (staging[n].bytes # Absent /\ staging'[n].bytes = Absent)
            => /\ stamped[BaseName(SourceOfName(n), n)][now] = staging[n].bytes
               /\ latest[BaseName(SourceOfName(n), n)] = staging[n].bytes]_vars

\* A call has relocated one file and has left another staged, whose copy over
\* the latest file failed part-way.
C5_Witness ==
    /\ pc = "returned"
    /\ faulted
    /\ Len(moved) = 1
    /\ \E i \in 1..Len(files) :
          /\ files[i].source \in sources
          /\ staging[files[i].name].bytes # Absent
          /\ latest[BaseName(files[i].source, files[i].name)] = Truncated

\* C6: (no failure or crash having occurred) the manifest
\* create_upload_manifest has just written does not depend on
\* its argument and has exactly one entry, ready for upload, for each category
\* that has a latest file on disk, and none for the other categories.
C6_ManifestListsEveryLatest ==
    (pc = "done" /\ rewrote /\ faults = 0) =>
        /\ manifest = create_upload_manifest(<<>>)
        /\ \A i \in 1..Len(manifest.files) : manifest.files[i].ready_for_upload
        /\ \A dir \in sources :
              Cardinality({i \in 1..Len(manifest.files) : manifest.files[i].source = dir})
                 = IF LatestFilesOf(dir) # {} THEN 1 ELSE 0

\* C7: a run of main() writes the manifest only if files were moved; a run
\* that returns has written it if and only if files were moved, the manifest
\* is then the one computed from the latest files on disk, and otherwise the
\* manifest file is as it was when the run began.
C7_ManifestRewrittenIffMoved ==
    /\ (caller = "main" /\ rewrote) => moved # <<>>
    /\ (caller = "main" /\ pc = "done" /\ ret # "raised") =>
          /\ rewrote <=> moved # <<>>
          /\ moved # <<>> => manifest = create_upload_manifest(<<>>)
          /\ moved = <<>> => manifest = disk0.manifest

\* A run of main() that moved a file replaced a manifest of one entry by a
\* manifest of two entries.
C7_Witness ==
    /\ caller = "main"
    /\ pc = "done"
    /\ rewrote
    /\ Len(disk0.manifest.files) = 1
    /\ Len(manifest.files) = 2

\* C8: move_and_organize_files([]) returns the empty list and, from its
\* beginning to its return, the staging directory, the project storage and the
\* manifest are what they were; the same holds of a run of main() whose scan
\* found nothing.
C8_EmptyOrganizeIsNoOp ==
    /\ (caller = "api" /\ pc \in {"loop", "returned"} /\ files = <<>>) =>
          /\ moved = <<>>
          /\ Snapshot = disk0
    /\ (caller = "main" /\ recent = <<>>) =>
          /\ moved = <<>>
          /\ Snapshot = disk0

\* move_and_organize_files([]) has returned with files staged and a manifest
\* of one entry on disk.
C8_Witness ==
    /\ caller = "api"
    /\ pc = "returned"
    /\ files = <<>>
    /\ Staged(staging) # {}
    /\ Len(manifest.files) = 1

\* C9: a run of main() that began in the scenario's state scans both files;
\* once it has returned without a failure, projections_latest.csv and
\* nfl-odds_latest.csv hold the two files' bytes, the staging directory is
\* empty, and the manifest lists exactly these two files, ready for upload.
C9_EndToEndScenario ==
    (caller = "main" /\ scenario) =>
        /\ {recent[i].name : i \in 1..Len(recent)} = {"plays.csv", "odds.csv"}
        /\ Len(recent) = 2
        /\ (pc = "done" /\ ~faulted) =>
              /\ latest["projections"] = BytesOf["plays.csv"]
              /\ latest["nfl-odds"] = BytesOf["odds.csv"]
              /\ Staged(staging) = {}
              /\ manifest.state = "written"
              /\ Len(manifest.files) = 2
              /\ {<<manifest.files[i].source, manifest.files[i].path, manifest.files[i].ready_for_upload>> :
                      i \in 1..Len(manifest.files)}
                   = {<<"projections", [dir |-> "projections", base |-> "projections"], TRUE>>,
                      <<"nfl_odds", [dir |-> "nfl_odds", base |-> "nfl-odds"], TRUE>>}

\* Such a run has returned.
C9_Witness ==
    /\ caller = "main"
    /\ scenario
    /\ pc = "done"
    /\ ~faulted
    /\ Len(moved) = 2

ContentRule(category, text) ==
    CASE category = "sos" ->
            "strength of schedule" \in text \/ {"opp avg", "fpa"} \subseteq text
      [] category = "projections" ->
            \E k \in {"projpts", "projown", "fantasy", "footballers"} : k \in text
      [] category = "draftkings" ->
            \E k \in {"draftkings", "salary", "roster position"} : k \in text
      [] OTHER ->
            \/ \E k \in {"spread", "moneyline"} : k \in text
            \/ ("total" \in text /\ \E k \in {"odds", "line", "bet"} : k \in text)

RuleOrder == <<"sos", "projections", "draftkings", "nfl_odds">>

\* C11: for a readable content, the classifier returns the category of the
\* first content rule that matches, in the order strength-of-schedule,
\* projections, salaries, odds, whatever the filename contains and whatever
\* later rules match as well.
C11_FirstContentRuleWins ==
    (clsSource # NoValue /\ clsContent # Unreadable) =>
        \A i \in 1..Len(RuleOrder) :
            (ContentRule(RuleOrder[i], clsContent)
                /\ \A j \in 1..(i - 1) : ~ContentRule(RuleOrder[j], clsContent))
            => clsSource = RuleOrder[i]

\* A content with the strength-of-schedule phrase and 'fantasy', in a file
\* whose name says odds, has been classified strength-of-schedule.
C11_Witness ==
    /\ clsSource = "sos"
    /\ {"strength of schedule", "fantasy"} \subseteq clsContent
    /\ "odds" \in clsFilename

\* C12: the classification of a file that cannot be read, or whose content is
\* empty, is a category or unknown (no exception) and equals the
\* classification of its name alone; the name DK_Salaries_export.csv gives
\* draftkings (salaries).
C12_UnreadableFallsBackToFilename ==
    (clsSource # NoValue /\ clsContent \in {Unreadable, {}}) =>
        /\ clsSource \in sources \cup {"unknown"}
        /\ clsSource = _check_filename_patterns(clsFilename)
        /\ clsFilename = FilenameMarkers("DK_Salaries_export.csv") => clsSource = "draftkings"

\* The unreadable file DK_Salaries_export.csv has been classified.
C12_Witness ==
    /\ clsSource = "draftkings"
    /\ clsContent = Unreadable
    /\ clsFilename = FilenameMarkers("DK_Salaries_export.csv")

NoContentRule(text) ==
    text = Unreadable \/ \A i \in 1..Len(RuleOrder) : ~ContentRule(RuleOrder[i], text)

\* C13 as stated: when no content rule matches, the filename is classified by
\* the content rules' keyword sets in the same order, and the result is
\* unknown only if the filename contains none of those keywords.
C13_FilenameUsesContentKeywords ==
    (clsSource # NoValue /\ NoContentRule(clsContent)) =>
        /\ \A i \in 1..Len(RuleOrder) :
              (ContentRule(RuleOrder[i], clsFilename)
                  /\ \A j \in 1..(i - 1) : ~ContentRule(RuleOrder[j], clsFilename))
              => clsSource = RuleOrder[i]
        /\ clsSource = "unknown" => clsFilename \cap ContentKeywords = {}

\* The filename rule of a category.
FilenameRule(category, text) ==
    CASE category = "sos" -> {"strength of schedule", "fantasy"} \subseteq text
      [] category = "projections" -> \E k \in {"projection", "fantasy", "footballers"} : k \in text
      [] category = "draftkings" -> \E k \in {"draftkings", "dk", "salaries"} : k \in text
      [] OTHER -> \E k \in {"odds", "lines", "betting"} : k \in text

\* C13 (amended): when no content rule matches, the result is the category
\* of the first filename rule that matches, in the same order of categories,
\* and unknown exactly when no filename rule matches.
C13_FilenameUsesFilenameKeywords ==
    (clsSource # NoValue /\ NoContentRule(clsContent)) =>
        /\ \A i \in 1..Len(RuleOrder) :
              (FilenameRule(RuleOrder[i], clsFilename)
                  /\ \A j \in 1..(i - 1) : ~FilenameRule(RuleOrder[j], clsFilename))
              => clsSource = RuleOrder[i]
        /\ clsSource = "unknown" <=> \A i \in 1..Len(RuleOrder) : ~FilenameRule(RuleOrder[i], clsFilename)

\* A file without content signal whose name contains 'fantasy' and 'dk' has
\* been classified projections.
C13_Witness ==
    /\ clsSource = "projections"
    /\ clsContent = {}
    /\ clsFilename = {"fantasy", "dk"}

\* C14: every value get_current_nfl_week returns is an integer from 1 to
\* NFL_WEEKS_IN_SEASON, whatever the date and the weekday of the season start.
C14_WeekInRange ==
    \A i \in 1..Len(weeksReturned) :
        weeksReturned[i].week \in 1..NFL_WEEKS_IN_SEASON

\* C15: a call before the season start returns 1, a call NFL_WEEKS_IN_SEASON
\* weeks or more after the season start returns NFL_WEEKS_IN_SEASON, and no
\* call returns more.
C15_WeekSaturates ==
    \A i \in 1..Len(weeksReturned) :
        LET r == weeksReturned[i] IN
        /\ r.date < NFL_SEASON_START_DATE => r.week = 1
        /\ r.date >= NFL_SEASON_START_DATE + 7 * NFL_WEEKS_IN_SEASON => r.week = NFL_WEEKS_IN_SEASON
        /\ r.week <= NFL_WEEKS_IN_SEASON

\* A call before the season start and a call more than NFL_WEEKS_IN_SEASON
\* weeks after it have returned.
C15_Witness ==
    /\ Len(weeksReturned) = 2
    /\ weeksReturned[1].date < NFL_SEASON_START_DATE
    /\ weeksReturned[1].week = 1
    /\ weeksReturned[2].date > NFL_SEASON_START_DATE + 7 * NFL_WEEKS_IN_SEASON
    /\ weeksReturned[2].week = NFL_WEEKS_IN_SEASON

\* C16: of two calls, the later one does not return a smaller week.
C16_WeekMonotonic ==
    Len(weeksReturned) = 2 =>
        /\ weeksReturned[1].date <= weeksReturned[2].date
        /\ weeksReturned[1].week <= weeksReturned[2].week

\* C17: a run of main() that is over has returned (the process exits with
\* code 0): no exception has left main().
C17_MainNeverRaises ==
    (caller = "main" /\ pc = "done") => ret \in {"None", "True", "False"}

\* The categories of the tab mappings in use that have a latest file on disk.
AvailableCategories ==
    LET tab_mappings == IF config.file = "ok" /\ config.tab_mappings # <<>>
                          THEN config.tab_mappings ELSE DEFAULT_TAB_MAPPINGS
    IN {tab_mappings[i] : i \in {j \in 1..Len(tab_mappings) : LatestExists(tab_mappings[j])}}

ConfigurationError ==
    \/ config.file # "ok"
    \/ config.sheet_id = NoValue
    \/ ~credentials.project
    \/ ~credentials.cwd

\* C19: with such a configuration no uploader is ever constructed, no call
\* is made to the spreadsheet service, and upload_to_sheets returns False.
C19_ConfigErrorsFailFast ==
    ConfigurationError =>
        /\ ~uploader
        /\ serviceCalls = <<>>
        /\ uploadPc \in {"idle", "done"}
        /\ uploadPc = "done" => uploadRet = "False"

\* upload_to_sheets has returned False for a config.json whose sheet id is
\* missing, the credentials file being in place.
C19_Witness ==
    /\ uploadPc = "done"
    /\ uploadRet = "False"
    /\ config.file = "ok"
    /\ config.sheet_id = NoValue
    /\ credentials.project
    /\ credentials.cwd

\* C20: in every run of run_all.main() the scrapers are attempted in the
\* order of the configuration, one result each, whatever the outcomes; when
\* the summary is printed, cleanup, every scraper, organization and (unless
\* skipped) upload have been attempted in this order and the summary counts
\* every scraper; and every run reaches the final summary.
C20_WorkflowAlwaysReachesSummary ==
    /\ [](/\ wfPc # "raised"
          /\ Len(scraperResults) <= Len(get_scraper_configs)
          /\ \A i \in 1..Len(scraperResults) : scraperResults[i][1] = get_scraper_configs[i]
          /\ wfPc = "done" =>
                /\ [i \in 1..Len(attempts) |-> attempts[i][1]]
                      = <<"cleanup">> \o get_scraper_configs \o <<"organize">>
                          \o (IF no_upload THEN <<>> ELSE <<"upload">>)
                /\ summary.total = Len(get_scraper_configs)
                /\ summary.organize_success = organize_success
                /\ summary.upload_skipped = no_upload)
    /\ <>(wfPc = "done")

\* A run has reached the final summary after a failed cleanup, a missing
\* script, a timeout, a scraper that succeeded, a failed organization and a
\* failed upload.
C20_Witness ==
    /\ wfPc = "done"
    /\ cleanup_success = "False"
    /\ attempts[2][2] = "missing"
    /\ attempts[3][2] = "timeout"
    /\ attempts[4][2] = "ok"
    /\ organize_success = "False"
    /\ ~no_upload
    /\ upload_success = "False"
    /\ summary.successful = 1

\* The Monday on or immediately before the first Sunday that is on or after the
\* season start, as the specification of the week computation defines it.
Week1MondayOf(season_start) == season_start + ((6 - weekday(season_start)) % 7) - 6

ClampWeek(week) ==
    IF week < 1 THEN 1
    ELSE IF week > NFL_WEEKS_IN_SEASON THEN NFL_WEEKS_IN_SEASON
    ELSE week

\* C21: every call of get_current_nfl_week on or after the season start
\* returns floor((date - week1Monday) / 7) + 1 clamped to 1..NFL_WEEKS_IN_SEASON,
\* week1Monday being the Monday on or immediately before the first Sunday on
\* or after the season start; a call on week1Monday itself returns 1.
C21_WeekIsElapsedWeeksFromWeek1Monday ==
    \A i \in 1..Len(weeksReturned) :
        LET r == weeksReturned[i]
            week1Monday == Week1MondayOf(NFL_SEASON_START_DATE)
        IN r.date >= NFL_SEASON_START_DATE =>
              /\ r.week = ClampWeek(((r.date - week1Monday) \div 7) + 1)
              /\ r.date = week1Monday => r.week = 1

\* The files of known category of files_to_move that the call has not
\* reported as moved.
Unmoved ==
    {i \in 1..Len(files) :
        /\ files[i].source \in sources
        /\ \A j \in 1..Len(moved) : moved[j].original # files[i].name}

\* C22: a failure on one file stops neither loop. When
\* move_and_organize_files returns, every file of known category has been
\* relocated except those a failure hit (none when no failure occurred); when
\* clear_old_csvs returns, every CSV file it listed has been deleted except
\* those whose deletion failed, each of which is in the error list, and the
\* result is True exactly when the list is empty.
C22_FailureDoesNotStopRemainingFiles ==
    /\ [](pc = "returned" =>
            /\ idx = Len(files) + 1
            /\ Cardinality(Unmoved) <= (IF faulted THEN faults ELSE 0)
            /\ \A j \in 1..Len(moved) : staging[moved[j].original].bytes = Absent)
    /\ [][(clPc = "dirs" /\ clPc' = "done") =>
            /\ \A f \in found :
                  f \in ProjectCsvs(f.dir) <=> (\E i \in 1..Len(errors) : errors[i] = f)
            /\ total_deleted + Len(errors) = Cardinality(found)
                  + Cardinality({i \in 1..Len(errors) : errors[i].kind = "directory"})
            /\ clRet' = "True" <=> errors = <<>>]_vars

\* clear_old_csvs has returned after the deletion of one file failed and a
\* file listed later was deleted; then move_and_organize_files has returned
\* after a failure on its first file and the relocation of its second.
C22_Witness ==
    /\ clPc = "done"
    /\ Len(errors) = 1
    /\ errors[1].kind = "loose"
    /\ errors[1].dir = "downloads"
    /\ total_deleted >= 1
    /\ pc = "returned"
    /\ faulted
    /\ Len(files) = 2
    /\ Unmoved = {1}
    /\ Len(moved) = 1

\* C23: when a run of main() of manage_downloads is over, organize_files
\* returns True only if no error occurred while organizing: a run in which a
\* copy or a deletion failed gives False.
C23_OrganizeTrueOnlyWithoutError ==
    (caller = "main" /\ pc = "done") => (organize_files => ~faulted)

\* The tokens that denote each position, and the order in which the positions
\* are to be recognized.
MarkersOf(pos) ==
    CASE pos = "QB" -> {"SOS_QB_", "_QB_"}
      [] pos = "RB" -> {"SOS_RB_", "_RB_"}
      [] pos = "WR" -> {"SOS_WR_", "_WR_"}
      [] pos = "TE" -> {"SOS_TE_", "_TE_"}
      [] OTHER -> {"SOS_D/ST_", "_DST_", "D%2FST"}

PositionOrder == <<"QB", "RB", "WR", "TE", "DST">>

\* C24: for a strength-of-schedule file, the position returned is null exactly
\* when the uppercased filename contains no position token; otherwise it is the
\* first position, in the order QB, RB, WR, TE, DST, one of whose tokens the
\* filename contains; and the file's base name is 'sos' when the position is
\* null, 'sos-<position>' otherwise.
C24_FirstRecognizedPosition ==
    (posPc = "done" /\ posSource = "sos") =>
        /\ position = NoValue <=>
              \A i \in 1..Len(PositionOrder) : ~AnyIn(MarkersOf(PositionOrder[i]), posFilename)
        /\ position # NoValue =>
              \E i \in 1..Len(PositionOrder) :
                  /\ position = PositionOrder[i]
                  /\ AnyIn(MarkersOf(PositionOrder[i]), posFilename)
                  /\ \A j \in 1..(i - 1) : ~AnyIn(MarkersOf(PositionOrder[j]), posFilename)
        /\ posBase = (CASE position = NoValue -> "sos"
                        [] position = "QB" -> "sos-qb"
                        [] position = "RB" -> "sos-rb"
                        [] position = "WR" -> "sos-wr"
                        [] position = "TE" -> "sos-te"
                        [] OTHER -> "sos-dst")

\* The position of a file whose name holds an RB token and a QB token has been
\* extracted: QB.
C24_Witness ==
    /\ posPc = "done"
    /\ posSource = "sos"
    /\ posFilename = {"_RB_", "_QB_"}
    /\ position = "QB"
    /\ posBase = "sos-qb"

\* The position tag of a file name (the first position, in PositionOrder, one
\* of whose tokens the name contains), and the base name of the pair
\* (strength-of-schedule, position).
TagOf(name) ==
    LET hits == {i \in 1..Len(PositionOrder) :
                    AnyIn(MarkersOf(PositionOrder[i]), FilenameMarkers(name))}
    IN IF hits = {} THEN NoValue
       ELSE PositionOrder[CHOOSE i \in hits : \A j \in hits : i <= j]

PairBase(tag) ==
    CASE tag = "QB" -> "sos-qb"
      [] tag = "RB" -> "sos-rb"
      [] tag = "WR" -> "sos-wr"
      [] tag = "TE" -> "sos-te"
      [] OTHER -> "sos-dst"

\* C25: every step of the loop that handles a strength-of-schedule file with
\* position tag P leaves the latest file and the timestamped files of every
\* other base name (other positions, bare sos, other categories) as they were,
\* and of the pair's own timestamped files changes at most the one of the
\* current minute.
C25_SosWritesOnlyItsPair ==
    [][(/\ pc \in {"loop", "latest", "unlink"}
        /\ idx <= Len(files)
        /\ files[idx].source = "sos"
        /\ TagOf(files[idx].name) # NoValue)
       => LET own == PairBase(TagOf(files[idx].name)) IN
          /\ \A b \in Bases \ {own} : latest'[b] = latest[b] /\ stamped'[b] = stamped[b]
          /\ \A t \in 0..MaxTime : t # now => stamped'[own][t] = stamped[own][t]
          /\ manifest' = manifest]_vars

\* The QB file has been copied to sos-qb_<timestamp>.csv and sos-qb_latest.csv
\* while sos-rb_latest.csv holds the RB file and there is no sos_latest.csv.
C25_Witness ==
    /\ pc = "unlink"
    /\ files[idx].name = "TFFB_SOS_QB_Week1_sos.csv"
    /\ latest["sos-qb"] = BytesOf["TFFB_SOS_QB_Week1_sos.csv"]
    /\ stamped["sos-qb"][now] = BytesOf["TFFB_SOS_QB_Week1_sos.csv"]
    /\ latest["sos-rb"] = BytesOf["TFFB_SOS_RB_Week1_sos.csv"]
    /\ latest["sos"] = Absent

\* C26: when clear_old_csvs returns True, no CSV file is left in downloads/
\* nor in any of the directories the organizer writes into.
C26_CleanupLeavesNoCsv ==
    [][(clPc = "dirs" /\ clPc' = "done" /\ clRet' = "True")
        => \A dir \in {"downloads"} \cup sources : ProjectCsvs(dir) = {}]_vars

\* The files of files_to_move that go under the base name `b`.
SameBase(b) ==
    {i \in 1..Len(files) :
        files[i].source \in sources /\ BaseName(files[i].source, files[i].name) = b}

\* C27: when a run of main() without failure has organized several staged
\* files of one category, the category's latest file holds the bytes of one
\* with the newest modification time among them.
C27_LatestIsNewestStaged ==
    (caller = "main" /\ pc \in {"returned", "done"} /\ ~faulted) =>
        \A b \in Bases :
            Cardinality(SameBase(b)) >= 2 =>
                \E k \in SameBase(b) :
                    /\ latest[b] = BytesOf[files[k].name]
                    /\ \A j \in SameBase(b) : files[j].modified <= files[k].modified

\* C28: the manifest a run of main() has written has, for every file the run
\* reports as relocated, an entry whose path is that file's latest path.
C28_ManifestCoversRelocated ==
    (caller = "main" /\ pc = "done" /\ rewrote) =>
        \A j \in 1..Len(moved) :
            \E i \in 1..Len(manifest.files) : manifest.files[i].path = moved[j].latest

\* C29: a step of the loop that fails (a copy, the replacement of the latest
\* file or the deletion of the original raises) leaves every category that had
\* a latest file with a latest file.
C29_FailureKeepsLatestFile ==
    [][(pc \in {"loop", "latest", "unlink"} /\ faults' = faults + 1 /\ pc' = "loop")
        => \A dir \in sources :
              (\E b \in Bases : DirOf(b) = dir /\ latest[b] # Absent)
                 => (\E b \in Bases : DirOf(b) = dir /\ latest'[b] # Absent)]_vars

\* C30: with the default tab mappings, the step of upload_all_dfs_data that
\* collects the available files finds every category among projections,
\* draftkings and nfl_odds whose latest file the organizer has written.
C30_DefaultMappingsFindOrganizedFiles ==
    [][(uploadPc = "connected" /\ uploadPc' # "connected" /\ config.tab_mappings = <<>>)
        => \A source \in {"projections", "draftkings", "nfl_odds"} :
              latest[Slug(source)] # Absent
                 => \E i \in 1..Len(available') : available'[i] = source]_vars

====
